---- MODULE Spec2Model ----
(***************************************************************************)
(* VoxMagic: the push-to-talk capture pipeline.                            *)
(*   - the hotkey monitor thread          (src/src/app.rs, 81-117)         *)
(*   - the capture engine                 (src/src/audio.rs)               *)
(*   - the coordinator (VoxMagicApp)      (src/src/app.rs, 140-270)        *)
(*   - the per-session background worker  (src/src/app.rs, 174-192)        *)
(* Text is a sequence of one-character strings, so that trim() is          *)
(* computed.  Instants are kept as their age in milliseconds.              *)
(***************************************************************************)
EXTENDS Integers, Sequences, FiniteSets, TLC

VARIABLES
    \* ---- shared hotkey slot and the monitor thread's locals
    hotkey_state,       \* Arc<AtomicU8>
    was_pressed,        \* monitor local
    release_start,      \* monitor local: None, or the age (ms) of the Instant
    \* ---- observation of the monitor (history variables, not program state)
    g_phase,            \* "none": no press polled yet; "held": a press was polled and the chord has
                        \* not yet stayed up for the grace window; "closed": it has
    g_up_ms,            \* None, or for how long the chord has been polled up without interruption
    g_bounced,          \* the chord went up and came back before the window elapsed
    ep_pubs,            \* what the monitor stored into the slot since the press that opened the episode
    g_last_pub,         \* None, or the value the monitor stored into the slot last
    g_session,          \* observation of the capture engine: how many recording sessions were
                        \* opened, whether the last one is open, the mono samples the callback
                        \* pushed since it began, and the sessions after whose readout it pushed
    \* ---- capture engine
    recording_state,    \* RecordingState: is_recording, samples, actual_sample_rate, actual_channels
    active_stream,      \* Option<cpal::Stream>: the stream the caller of start_recording holds
    last_result,        \* what the last call into the capture engine returned to a direct caller
    samples_lock,       \* the Mutex of RecordingState.samples: None, or the context that holds it
    cb,                 \* the device's callback thread: where it stands, and the block it was given
    caller,             \* a call of start_recording or stop_recording in progress, step by step
    \* ---- coordinator (VoxMagicApp) and its update() on the UI thread
    state,              \* AppState
    history,            \* Vec<String>, most recent first
    status_message,     \* String, as fragments
    show_settings,
    settings,           \* AppSettings: groq_api_key, auto_paste
    ui_pc,              \* where update() stands: "hotkey", "edge", "messages", "paste"
    ui_local,           \* update()'s locals: the loaded hotkey state, the text being pasted;
                        \* and what this call of update() has made the UI thread wait on
    paste_calls,        \* the texts paste_text_to_active_window was called with, in order
    \* ---- message channel and background workers
    channel,            \* mpsc channel: the AppMessages sent and not yet received
    workers,            \* one entry per thread spawned by stop_recording
    transcribe_calls    \* observation of the transcriber (a history variable): the calls of
                        \* transcribe, in order: the thread that called and its audio_data

monitor_vars == <<hotkey_state, was_pressed, release_start>>
ghost_vars == <<g_phase, g_up_ms, g_bounced, ep_pubs, g_last_pub, g_session>>
audio_vars == <<recording_state, active_stream, last_result>>
lock_vars == <<samples_lock, cb, caller>>
app_vars == <<state, history, status_message, show_settings, settings, ui_pc, ui_local,
              paste_calls>>
worker_vars == <<channel, workers, transcribe_calls>>
vars == <<monitor_vars, ghost_vars, audio_vars, lock_vars, app_vars, worker_vars>>

----------------------------------------------------------------------------
\* Constants of src/src/app.rs
RELEASE_GRACE_MS == 250
KEY_STATE_IDLE == 0
KEY_STATE_PRESSED == 1
KEY_STATE_RELEASED == 2
\* thread::sleep(Duration::from_millis(10)) at the end of each monitor iteration
POLL_SLEEP_MS == 10

None == <<>>
Some(x) == <<x>>
Unwrap(o) == o[1]

Min(a, b) == IF a < b THEN a ELSE b

----------------------------------------------------------------------------
(***************************************************************************)
(* The hotkey monitor thread.  One action is one iteration of its loop:    *)
(* the sleep that precedes the poll lasted dt ms (at least POLL_SLEEP_MS), *)
(* and the poll found the chord down (is_pressed) or up.                   *)
(***************************************************************************)

\* The gaps between two polls that SpecMonitor explores: the nominal sleep, two
\* late wake-ups, and a stall as long as the whole window.
MonitorGaps == {POLL_SLEEP_MS, POLL_SLEEP_MS + 1, 5 * POLL_SLEEP_MS, RELEASE_GRACE_MS}

\* An Instant's age after dt more milliseconds; ages past the window are all alike.
Aged(start, dt) ==
    IF start = None THEN None ELSE Some(Min(Unwrap(start) + dt, RELEASE_GRACE_MS))

\* start.elapsed().as_millis() >= RELEASE_GRACE_MS as u128
GraceElapsedOff(start) == Unwrap(start) > RELEASE_GRACE_MS
GraceElapsed(start) == Unwrap(start) >= RELEASE_GRACE_MS

\* if is_pressed { release_start = None; ... }
ReleaseStartOnPressKept(start) == start
ReleaseStartOnPress(start) == None

\* if !was_pressed { store(PRESSED); was_pressed = true }
PublishesPressedAlways(was) == TRUE
PublishesPressed(was) == ~was

\* The values the iteration leaves in <<hotkey_state, was_pressed, release_start>>
\* and the value it stored into the slot, if any.
MonitorIteration(slot, was, start, is_pressed) ==
    IF is_pressed THEN
        IF PublishesPressed(was)
        THEN [slot |-> KEY_STATE_PRESSED, was |-> TRUE,
              start |-> ReleaseStartOnPress(start), pub |-> Some(KEY_STATE_PRESSED)]
        ELSE [slot |-> slot, was |-> was,
              start |-> ReleaseStartOnPress(start), pub |-> None]
    ELSE IF was THEN
        LET s == IF start = None THEN Some(0) ELSE start IN
        IF GraceElapsed(s)
        THEN [slot |-> KEY_STATE_RELEASED, was |-> FALSE, start |-> None,
              pub |-> Some(KEY_STATE_RELEASED)]
        ELSE [slot |-> slot, was |-> was, start |-> s, pub |-> None]
    ELSE [slot |-> slot, was |-> was, start |-> start, pub |-> None]

\* What an observer of the polled chord states and of the slot's writes records.
ObservePoll(is_pressed, dt, pub) ==
    LET g_held == g_phase = "held"
        opens == is_pressed /\ ~g_held
        up    == IF is_pressed THEN None
                 ELSE IF ~g_held THEN None
                 ELSE IF g_up_ms = None THEN Some(0)
                 ELSE Some(Min(Unwrap(g_up_ms) + dt, RELEASE_GRACE_MS))
        ends  == up # None /\ Unwrap(up) >= RELEASE_GRACE_MS
    IN  /\ g_phase' = IF is_pressed THEN "held" ELSE IF ends THEN "closed" ELSE g_phase
        /\ g_up_ms' = IF ends THEN None ELSE up
        /\ g_bounced' = IF opens THEN FALSE
                        ELSE IF is_pressed /\ g_up_ms # None THEN TRUE
                        ELSE g_bounced
        /\ ep_pubs' = (IF opens THEN <<>> ELSE ep_pubs) \o pub
        /\ g_last_pub' = IF pub = None THEN g_last_pub ELSE pub
        /\ UNCHANGED g_session

\* What one iteration of the loop finds and leaves, dt ms after the one before.
MonitorOutcome(is_pressed, dt) ==
    MonitorIteration(hotkey_state, was_pressed, Aged(release_start, dt), is_pressed)

\* One iteration of the loop.
MonitorStep(is_pressed, dt) ==
    LET r == MonitorOutcome(is_pressed, dt)
    IN  /\ hotkey_state' = r.slot
        /\ was_pressed' = r.was
        /\ release_start' = r.start

\* One iteration of the loop, observed.
MonitorPoll(is_pressed, dt) ==
    /\ MonitorStep(is_pressed, dt)
    /\ ObservePoll(is_pressed, dt, MonitorOutcome(is_pressed, dt).pub)

HotkeyMonitor ==
    \E is_pressed \in BOOLEAN, dt \in MonitorGaps :
        MonitorPoll(is_pressed, dt) /\ UNCHANGED <<audio_vars, lock_vars, app_vars, worker_vars>>

----------------------------------------------------------------------------
(***************************************************************************)
(* The capture engine, src/src/audio.rs.  Its functions are operators from *)
(* the RecordingState (and what the device does) to the RecordingState     *)
(* they leave and the value they return.                                   *)
(***************************************************************************)

\* config.rs
CHANNELS == 1
BITS_PER_SAMPLE == 16
\* encode_wav: let target_sample_rate = 16000
TARGET_SAMPLE_RATE == 16000

I16_MIN == -32768
I16_MAX == 32767

Ok(v) == [ok |-> TRUE, value |-> v]
\* The value of an Ok that carries no WAV: the stream of start_recording is returned
\* beside the result, and a thread that has ended has moved its audio_data away.
NoWav == [channels |-> CHANNELS, sample_rate |-> TARGET_SAMPLE_RATE,
          bits_per_sample |-> BITS_PER_SAMPLE, data |-> <<>>]
Err(kind, detail) == [ok |-> FALSE, kind |-> kind, detail |-> detail]

\* #[error("...")] of AudioError: the Display text, as fragments
AudioErrorText(e) ==
    CASE e.kind = "NoInputDevice"    -> <<"No input device available">>
      [] e.kind = "ConfigError"      -> <<"Failed to get default input config: ", e.detail>>
      [] e.kind = "StreamError"      -> <<"Failed to build input stream: ", e.detail>>
      [] e.kind = "EncodingError"    -> <<"Failed to encode WAV: ", e.detail>>
      [] e.kind = "AlreadyRecording" -> <<"Recording already in progress">>
      [] e.kind = "NotRecording"     -> <<"Not currently recording">>

\* RecordingState::new
NewRecordingState ==
    [is_recording |-> FALSE, samples |-> <<>>,
     actual_sample_rate |-> 16000, actual_channels |-> 1]

\* Integer division as Rust's / on i32: the quotient truncated toward zero.
TruncDiv(a, b) == IF a >= 0 THEN a \div b ELSE -((-a) \div b)

Clamp(x, lo, hi) == IF x < lo THEN lo ELSE IF x > hi THEN hi ELSE x

RECURSIVE SumSeq(_)
SumSeq(q) == IF q = <<>> THEN 0 ELSE Head(q) + SumSeq(Tail(q))

\* data.chunks_exact(channels): the complete frames, a shorter tail left out
ChunksExact(data, channels) ==
    [k \in 1..(Len(data) \div channels) |->
        SubSeq(data, (k - 1) * channels + 1, k * channels)]

\* `x as i16` of an i32: the low 16 bits, two's complement
AsI16(x) == ((x - I16_MIN) % (I16_MAX - I16_MIN + 1)) + I16_MIN

\* build_stream_i16's callback body: let mono = (sum / channels as i32) as i16
MonoI16Floored(frame, channels) == AsI16(SumSeq(frame) \div channels)
MonoI16(frame, channels) == AsI16(TruncDiv(SumSeq(frame), channels))

\* build_stream_f32's callback body, an f32 sample held in thousandths:
\* (avg * 32767.0).clamp(-32768.0, 32767.0) as i16
MonoF32(frame, channels) ==
    Clamp(TruncDiv(SumSeq(frame) * I16_MAX, channels * 1000), I16_MIN, I16_MAX)

\* What one delivered block appends, for a stream built for (format, channels).
MixDown(stream, data) ==
    LET frames == ChunksExact(data, stream.channels)
    IN  [k \in 1..Len(frames) |->
            IF stream.format = "I16" THEN MonoI16(frames[k], stream.channels)
            ELSE MonoF32(frames[k], stream.channels)]

\* if !is_recording.load(Ordering::Relaxed) { return; }
CallbackWrites(rs) == rs.is_recording

\* The input callback of a live stream, for one delivered block.
callback(rs, stream, data) ==
    IF CallbackWrites(rs)
    THEN [rs EXCEPT !.samples = @ \o MixDown(stream, data)]
    ELSE rs

\* if state.is_recording.load(Ordering::Relaxed) { return Err(AlreadyRecording) }
StartRefusedNever(rs) == FALSE
StartRefused(rs) == rs.is_recording

\* if let Ok(mut samples) = state.samples.lock() { samples.clear(); }
SamplesKept(samples) == samples
SamplesCleared(samples) == <<>>

\* start_recording(state), with what the host and the device answer:
\*   dev.present   default_input_device() is Some
\*   dev.config    default_input_config() is Ok, with dev.rate, dev.channels, dev.format
\*   dev.build     build_input_stream is Ok;  dev.play  stream.play() is Ok
start_recording(rs, dev) ==
    IF StartRefused(rs)
    THEN [rs |-> rs, result |-> Err("AlreadyRecording", ""), stream |-> None]
    ELSE
    LET cleared == [rs EXCEPT !.samples = SamplesCleared(@)]
        stored  == [cleared EXCEPT !.actual_sample_rate = dev.rate,
                                   !.actual_channels = dev.channels]
    IN  IF ~dev.present
        THEN [rs |-> cleared, result |-> Err("NoInputDevice", ""), stream |-> None]
        ELSE IF ~dev.config
        THEN [rs |-> cleared, result |-> Err("ConfigError", "backend"), stream |-> None]
        ELSE IF dev.format \notin {"I16", "F32"}
        THEN [rs |-> stored, result |-> Err("ConfigError", "Unsupported format"),
              stream |-> None]
        ELSE IF ~dev.build
        THEN [rs |-> stored, result |-> Err("StreamError", "build"), stream |-> None]
        ELSE IF ~dev.play
        THEN [rs |-> stored, result |-> Err("StreamError", "play"), stream |-> None]
        ELSE [rs |-> [stored EXCEPT !.is_recording = TRUE],
              result |-> Ok(NoWav),
              stream |-> Some([format |-> dev.format, channels |-> dev.channels])]

\* downsample(samples, from, to).  ratio = from / to is kept exact: pos = i * from / to,
\* index its integer part, fract the rest; `interpolated as i16` truncates toward zero.
DownsampleWithoutLast(samples, from, to) ==
    IF from = to THEN samples
    ELSE
    LET target_len == (Len(samples) * to) \div from
        at(i) ==
            LET index == (i * from) \div to
                rem   == (i * from) % to
            IN  IF index + 1 < Len(samples)
                THEN LET s1 == samples[index + 1]
                         s2 == samples[index + 2]
                     IN  <<Clamp(TruncDiv(s1 * to + (s2 - s1) * rem, to), I16_MIN, I16_MAX)>>
                ELSE <<>>
        RECURSIVE build(_)
        build(i) == IF i >= target_len THEN <<>> ELSE at(i) \o build(i + 1)
    IN  build(0)
downsample(samples, from, to) ==
    IF from = to THEN samples
    ELSE
    LET target_len == (Len(samples) * to) \div from
        at(i) ==
            LET index == (i * from) \div to
                rem   == (i * from) % to
            IN  IF index + 1 < Len(samples)
                THEN LET s1 == samples[index + 1]
                         s2 == samples[index + 2]
                     IN  <<Clamp(TruncDiv(s1 * to + (s2 - s1) * rem, to), I16_MIN, I16_MAX)>>
                ELSE IF index < Len(samples) THEN <<samples[index + 1]>>
                ELSE <<>>
        RECURSIVE build(_)
        build(i) == IF i >= target_len THEN <<>> ELSE at(i) \o build(i + 1)
    IN  build(0)

\* encode_wav(samples, original_sample_rate): the WAV's header fields and its samples
EncodeWavFrom48000(samples, original_sample_rate) ==
    Ok([channels |-> CHANNELS, sample_rate |-> TARGET_SAMPLE_RATE,
        bits_per_sample |-> BITS_PER_SAMPLE,
        data |-> downsample(samples, 48000, TARGET_SAMPLE_RATE)])
encode_wav(samples, original_sample_rate) ==
    LET processed_samples ==
            IF original_sample_rate # TARGET_SAMPLE_RATE
            THEN downsample(samples, original_sample_rate, TARGET_SAMPLE_RATE)
            ELSE samples
    IN  Ok([channels |-> CHANNELS, sample_rate |-> TARGET_SAMPLE_RATE,
            bits_per_sample |-> BITS_PER_SAMPLE, data |-> processed_samples])

\* if !state.is_recording.load(Ordering::Relaxed) { return Err(NotRecording) }
StopRefusedNever(rs) == FALSE
StopRefused(rs) == ~rs.is_recording

\* stop_recording(state)
StopRecordingEncodesEmpty(rs) ==
    IF StopRefused(rs)
    THEN [rs |-> rs, result |-> Err("NotRecording", "")]
    ELSE [rs |-> [rs EXCEPT !.is_recording = FALSE],
          result |-> encode_wav(rs.samples, rs.actual_sample_rate)]
stop_recording(rs) ==
    IF StopRefused(rs)
    THEN [rs |-> rs, result |-> Err("NotRecording", "")]
    ELSE
    LET stopped == [rs EXCEPT !.is_recording = FALSE]
        samples == stopped.samples
    IN  IF samples = <<>>
        THEN [rs |-> stopped, result |-> Err("EncodingError", "No audio captured")]
        ELSE [rs |-> stopped, result |-> encode_wav(samples, stopped.actual_sample_rate)]

----------------------------------------------------------------------------
(***************************************************************************)
(* The capture engine under an arbitrary caller: start_recording and       *)
(* stop_recording are public and take any RecordingState, so SpecAudio     *)
(* calls them in every order, keeps or drops the returned stream, and lets *)
(* the device deliver blocks to a live stream.                             *)
(***************************************************************************)

\* The most mono samples a session's buffer holds in the model.
MaxSamples == 2

\* What the host and the device may answer to start_recording.
Device(present, config, rate, channels, format, build, play) ==
    [present |-> present, config |-> config, rate |-> rate, channels |-> channels,
     format |-> format, build |-> build, play |-> play]

DeviceCases ==
    { Device(FALSE, FALSE, 16000, 1, "I16", FALSE, FALSE),
      Device(TRUE, FALSE, 16000, 1, "I16", FALSE, FALSE),
      Device(TRUE, TRUE, 44100, 2, "U16", FALSE, FALSE),
      Device(TRUE, TRUE, 48000, 2, "I16", FALSE, FALSE),
      Device(TRUE, TRUE, 48000, 1, "F32", TRUE, FALSE),
      Device(TRUE, TRUE, 16000, 1, "I16", TRUE, TRUE),
      Device(TRUE, TRUE, 48000, 2, "I16", TRUE, TRUE),
      Device(TRUE, TRUE, 8000, 2, "F32", TRUE, TRUE) }

\* The blocks the device delivers: i16 values, or f32 values in thousandths.
BlocksI16 == { <<7>>, <<I16_MAX, I16_MAX>>, <<I16_MIN, -3>>, <<-7, 2, 5>> }
BlocksF32 == { <<500>>, <<1000, 2000>>, <<-1000, -1500, 250>> }
Blocks(stream) == IF stream.format = "I16" THEN BlocksI16 ELSE BlocksF32

ClientStart(dev) ==
    LET r == start_recording(recording_state, dev)
    IN  /\ recording_state' = r.rs
        /\ last_result' = r.result
        \* a stream the caller held before is dropped when the new one is stored
        /\ active_stream' = IF r.result.ok THEN r.stream ELSE active_stream
        /\ UNCHANGED <<monitor_vars, ghost_vars, lock_vars, app_vars, worker_vars>>

ClientStop ==
    LET r == stop_recording(recording_state)
    IN  /\ recording_state' = r.rs
        /\ last_result' = r.result
        /\ UNCHANGED <<active_stream, monitor_vars, ghost_vars, lock_vars, app_vars, worker_vars>>

ClientDropStream ==
    /\ active_stream # None
    /\ active_stream' = None
    /\ UNCHANGED <<recording_state, last_result, monitor_vars, ghost_vars, lock_vars, app_vars, worker_vars>>

AudioCallback(data) ==
    /\ active_stream # None
    /\ data \in Blocks(Unwrap(active_stream))
    /\ Len(recording_state.samples) + Len(data) \div Unwrap(active_stream).channels <= MaxSamples
    /\ recording_state' = callback(recording_state, Unwrap(active_stream), data)
    /\ UNCHANGED <<active_stream, last_result, monitor_vars, ghost_vars, lock_vars, app_vars, worker_vars>>

AudioInit ==
    /\ recording_state = NewRecordingState
    /\ active_stream = None
    /\ last_result = Ok(NoWav)

\* No call in progress, the mutex free, the callback thread outside the callback.
LockInit ==
    /\ samples_lock = None
    /\ cb = [pc |-> "idle", data |-> <<>>, stream |-> [format |-> "I16", channels |-> 1]]
    /\ caller = [pc |-> "idle", call |-> "stop",
                 dev |-> Device(FALSE, FALSE, 16000, 1, "I16", FALSE, FALSE)]

AudioNext ==
    \/ \E dev \in DeviceCases : ClientStart(dev)
    \/ ClientStop
    \/ ClientDropStream
    \/ \E data \in BlocksI16 \cup BlocksF32 : AudioCallback(data)

----------------------------------------------------------------------------
(***************************************************************************)
(* Text, the transcriber's outcomes and the messages of the channel.       *)
(***************************************************************************)

Whitespace == {" ", "\n"}

RECURSIVE TrimStart(_)
TrimStart(t) ==
    IF t # <<>> /\ Head(t) \in Whitespace THEN TrimStart(Tail(t)) ELSE t

RECURSIVE TrimEnd(_)
TrimEnd(t) ==
    IF t # <<>> /\ t[Len(t)] \in Whitespace THEN TrimEnd(SubSeq(t, 1, Len(t) - 1)) ELSE t

\* str::trim
TrimNothing(t) == t
Trim(t) == TrimEnd(TrimStart(t))

\* #[error("...")] of TranscriptionError: the Display text, as fragments
TranscriptionErrorText(e) ==
    CASE e.kind = "RequestError" -> <<"HTTP request failed: ", e.detail>>
      [] e.kind = "ApiError"     -> <<"API error: ", e.detail>>
      [] e.kind = "ParseError"   -> <<"Failed to parse response: ", e.detail>>

\* Transcriber::refine(text), given what the chat endpoint answered:
\* an error, or the first choice's content (the text itself when there is none)
refine(text, reply) ==
    IF ~reply.ok THEN reply
    ELSE Ok(Trim(IF reply.value = None THEN text ELSE Unwrap(reply.value)))

\* Transcriber::transcribe(audio_data), given what the two endpoints answered:
\* whisper is an error or the response's text, chat as for refine
TranscribeRefineOrFail(api_key, audio_data, whisper, chat) ==
    IF Trim(api_key) = <<>>
    THEN Err("ApiError", "API Key is missing. Please set it in Settings.")
    ELSE IF ~whisper.ok THEN whisper
    ELSE
    LET raw_text == Trim(whisper.value) IN
    IF raw_text = <<>> THEN Ok(whisper.value)
    ELSE refine(raw_text, chat)
transcribe(api_key, audio_data, whisper, chat) ==
    IF Trim(api_key) = <<>>
    THEN Err("ApiError", "API Key is missing. Please set it in Settings.")
    ELSE IF ~whisper.ok THEN whisper
    ELSE
    LET raw_text == Trim(whisper.value) IN
    IF raw_text = <<>> THEN Ok(whisper.value)
    ELSE LET refined == refine(raw_text, chat)
         IN  IF refined.ok THEN Ok(refined.value) ELSE Ok(whisper.value)

\* enum AppMessage
TranscriptionStart == [tag |-> "TranscriptionStart", text |-> <<>>]
TranscriptionComplete(text) == [tag |-> "TranscriptionComplete", text |-> text]
TranscriptionError(text) == [tag |-> "TranscriptionError", text |-> text]

\* The thread spawned by stop_recording, first part: match audio_result.
\* What it sends before the transcriber is called, and whether it goes on.
WorkerOnCaptureErrorSilent(audio_result) == <<>>
WorkerOnCaptureErrorStarted(audio_result) ==
    <<TranscriptionStart, TranscriptionError(AudioErrorText(audio_result))>>
WorkerOnCaptureError(audio_result) ==
    <<TranscriptionError(AudioErrorText(audio_result))>>

\* The thread spawned by stop_recording, second part: match transcriber.transcribe(..)
WorkerOnTranscribedBlank(result) ==
    IF result.ok THEN <<TranscriptionComplete(result.value)>>
    ELSE <<TranscriptionComplete(<<>>)>>
WorkerOnTranscribed(result) ==
    IF result.ok THEN <<TranscriptionComplete(result.value)>>
    ELSE <<TranscriptionError(TranscriptionErrorText(result))>>

----------------------------------------------------------------------------
(***************************************************************************)
(* The coordinator: VoxMagicApp's start_recording, stop_recording,         *)
(* process_hotkey, process_messages and paste_text_to_active_window, as    *)
(* update() runs them on the UI thread.                                    *)
(***************************************************************************)

AppStates == {"Ready", "Listening", "Transcribing", "Pasting"}

\* if self.history.len() > 10 { self.history.pop(); }
HISTORY_LIMIT == 10

\* self.history.insert(0, cleaned_text); if self.history.len() > 10 { self.history.pop(); }
HistoryInsertDropNewest(h, cleaned_text) ==
    IF Len(h) + 1 > HISTORY_LIMIT THEN h ELSE <<cleaned_text>> \o h
HistoryInsertUnbounded(h, cleaned_text) == <<cleaned_text>> \o h
HistoryInsertAtEnd(h, cleaned_text) ==
    LET inserted == h \o <<cleaned_text>>
    IN  IF Len(inserted) > HISTORY_LIMIT THEN Tail(inserted) ELSE inserted
HistoryInsert(h, cleaned_text) ==
    LET inserted == <<cleaned_text>> \o h
    IN  IF Len(inserted) > HISTORY_LIMIT
        THEN SubSeq(inserted, 1, Len(inserted) - 1)
        ELSE inserted

\* start_recording's guard: self.state != AppState::Ready || groq_api_key.is_empty()
StartSwallowedKeyOnly(st, api_key) == api_key = <<>>
StartSwallowed(st, api_key) == st # "Ready" \/ api_key = <<>>

\* stop_recording: self.active_stream.take(), paused and dropped
StreamAfterTakeKept(stream) == stream
StreamAfterTake(stream) == None

\* if self.settings.auto_paste { ... self.paste_text_to_active_window(..) }
PastesAlways(s) == TRUE
Pastes(s) == s.auto_paste

\* process_messages, TranscriptionComplete: the status when the trimmed text is empty
NoSpeechStatusSuccess == <<"Success">>
NoSpeechStatus == <<"No speech detected">>

\* What the UI thread waits on in VoxMagicApp::start_recording: audio::start_recording
\* asks the host for the default input device and its config, builds the input
\* stream and starts it.
StartBlocksOn(swallowed) == IF swallowed THEN {} ELSE {"device_open"}

\* What the UI thread waits on in paste_text_to_active_window: thread::sleep of 20 ms
\* per turn while Win or Shift is down, and of 150, 30 and 30 ms around Ctrl+V once
\* the clipboard took the text.
PasteSleepMs(modifiers_down, clipboard_ok) ==
    (IF modifiers_down THEN 20 ELSE 0) + (IF clipboard_ok THEN 150 + 30 + 30 ELSE 0)
PasteBlocksOn(modifiers_down, clipboard_ok) ==
    IF PasteSleepMs(modifiers_down, clipboard_ok) > 0 THEN {"sleep"} ELSE {}

\* VoxMagicApp::start_recording, given what the device answers if it is asked
AppStartRecording(dev) ==
    IF StartSwallowed(state, settings.groq_api_key)
    THEN /\ show_settings' = (IF settings.groq_api_key = <<>> THEN TRUE ELSE show_settings)
         /\ UNCHANGED <<state, status_message, recording_state, active_stream>>
    ELSE LET r == start_recording(recording_state, dev)
         IN  /\ recording_state' = r.rs
             /\ IF r.result.ok
                THEN /\ active_stream' = r.stream
                     /\ state' = "Listening"
                     /\ status_message' = <<"Listening...">>
                ELSE /\ status_message' = <<"Mic Error: ">> \o AudioErrorText(r.result)
                     /\ UNCHANGED <<active_stream, state>>
             /\ UNCHANGED show_settings

\* VoxMagicApp::stop_recording: the stream is taken, paused and dropped, the capture
\* engine is stopped on this thread, and the thread that gets audio_result is spawned
AppStopRecording ==
    IF state # "Listening"
    THEN UNCHANGED <<active_stream, state, status_message, recording_state, workers>>
    ELSE LET r == stop_recording(recording_state)
         IN  /\ active_stream' = StreamAfterTake(active_stream)
             /\ state' = "Transcribing"
             /\ status_message' = <<"Refining...">>
             /\ recording_state' = r.rs
             /\ workers' = Append(workers, [pc |-> "spawned", audio_result |-> r.result,
                                            api_key |-> settings.groq_api_key])

\* process_hotkey: let state = self.hotkey_state.load(SeqCst)
ProcessHotkeyLoad ==
    /\ ui_pc = "hotkey"
    /\ ui_local' = [ui_local EXCEPT !.hk = hotkey_state]
    /\ ui_pc' = IF hotkey_state \in {KEY_STATE_PRESSED, KEY_STATE_RELEASED}
                THEN "edge" ELSE "messages"
    /\ UNCHANGED <<monitor_vars, ghost_vars, lock_vars, audio_vars, worker_vars, state, history,
                   status_message, show_settings, settings, paste_calls>>

\* process_hotkey, KEY_STATE_PRESSED: store(KEY_STATE_IDLE); self.start_recording()
ProcessHotkeyPressed(dev) ==
    /\ ui_pc = "edge"
    /\ ui_local.hk = KEY_STATE_PRESSED
    /\ hotkey_state' = KEY_STATE_IDLE
    /\ AppStartRecording(dev)
    /\ ui_pc' = "messages"
    /\ ui_local' = [ui_local EXCEPT
          !.hk = KEY_STATE_IDLE,
          !.blocked = @ \cup StartBlocksOn(StartSwallowed(state, settings.groq_api_key))]
    /\ UNCHANGED <<was_pressed, release_start, ghost_vars, lock_vars, last_result, worker_vars,
                   history, settings, paste_calls>>

\* process_hotkey, KEY_STATE_RELEASED: store(KEY_STATE_IDLE); self.stop_recording()
ProcessHotkeyReleased ==
    /\ ui_pc = "edge"
    /\ ui_local.hk = KEY_STATE_RELEASED
    /\ hotkey_state' = KEY_STATE_IDLE
    /\ AppStopRecording
    /\ ui_pc' = "messages"
    /\ ui_local' = [ui_local EXCEPT !.hk = KEY_STATE_IDLE]
    /\ UNCHANGED <<was_pressed, release_start, ghost_vars, lock_vars, last_result, channel,
                   transcribe_calls, history, show_settings, settings, paste_calls>>

\* process_messages: one turn of `while let Ok(msg) = self.message_rx.try_recv()`,
\* up to the call of paste_text_to_active_window when auto-paste is on
ProcessMessage ==
    /\ ui_pc = "messages"
    /\ channel # <<>>
    /\ channel' = Tail(channel)
    /\ LET msg == Head(channel)
           cleaned_text == Trim(msg.text)
       IN  CASE msg.tag = "TranscriptionStart" ->
                  /\ state' = "Transcribing"
                  /\ UNCHANGED <<history, status_message, ui_pc, ui_local>>
             [] msg.tag = "TranscriptionComplete" ->
                  IF cleaned_text # <<>>
                  THEN /\ history' = HistoryInsert(history, cleaned_text)
                       /\ IF Pastes(settings)
                          THEN /\ state' = "Pasting"
                               /\ status_message' = <<"Pasting...">>
                               /\ ui_pc' = "paste"
                               /\ ui_local' = [ui_local EXCEPT !.text = cleaned_text]
                          ELSE /\ state' = "Ready"
                               /\ status_message' = <<"Success">>
                               /\ UNCHANGED <<ui_pc, ui_local>>
                  ELSE /\ status_message' = NoSpeechStatus
                       /\ state' = "Ready"
                       /\ UNCHANGED <<history, ui_pc, ui_local>>
             [] msg.tag = "TranscriptionError" ->
                  /\ status_message' = <<"Error: ">> \o msg.text
                  /\ state' = "Ready"
                  /\ UNCHANGED <<history, ui_pc, ui_local>>
    /\ UNCHANGED <<monitor_vars, ghost_vars, lock_vars, audio_vars, workers, transcribe_calls,
                   show_settings, settings, paste_calls>>

\* process_messages, TranscriptionComplete with auto-paste: the call of
\* paste_text_to_active_window (it waits for the modifiers, sets the clipboard and
\* sends Ctrl+V, all outside the program's state), then "Success" and Ready
PasteTextToActiveWindow ==
    /\ ui_pc = "paste"
    /\ paste_calls' = Append(paste_calls, ui_local.text)
    /\ status_message' = <<"Success">>
    /\ state' = "Ready"
    /\ ui_pc' = "messages"
    /\ \E modifiers_down \in BOOLEAN, clipboard_ok \in BOOLEAN :
          ui_local' = [ui_local EXCEPT
              !.text = <<>>,
              !.blocked = @ \cup PasteBlocksOn(modifiers_down, clipboard_ok)]
    /\ UNCHANGED <<monitor_vars, ghost_vars, lock_vars, audio_vars, worker_vars, history,
                   show_settings, settings>>

\* The credentials the settings file or the settings panel may hold.
ApiKeys == { <<>>, <<" ">>, <<"g", "s", "k">> }

\* What the user does in the window in one frame.
UiEvents ==
    { [kind |-> "none", key |-> <<>>], [kind |-> "clear", key |-> <<>>],
      [kind |-> "gear", key |-> <<>>], [kind |-> "auto_paste", key |-> <<>>] }
    \cup { [kind |-> "key", key |-> k] : k \in ApiKeys }

\* update(), after process_messages found the channel empty: the widgets
UpdateWidgets(ev) ==
    /\ ui_pc = "messages"
    /\ channel = <<>>
    /\ ui_pc' = "hotkey"
    /\ CASE ev.kind = "none" -> UNCHANGED <<history, show_settings, settings>>
         [] ev.kind = "clear" ->
              /\ history' = <<>>
              /\ UNCHANGED <<show_settings, settings>>
         [] ev.kind = "gear" ->
              /\ show_settings' = ~show_settings
              /\ UNCHANGED <<history, settings>>
         [] ev.kind = "auto_paste" ->
              /\ show_settings
              /\ settings' = [settings EXCEPT !.auto_paste = ~@]
              /\ UNCHANGED <<history, show_settings>>
         [] ev.kind = "key" ->
              /\ show_settings
              /\ settings' = [settings EXCEPT !.groq_api_key = ev.key]
              /\ UNCHANGED <<history, show_settings>>
    \* update() returns
    /\ ui_local' = [ui_local EXCEPT !.blocked = {}]
    /\ UNCHANGED <<monitor_vars, ghost_vars, lock_vars, audio_vars, worker_vars, state,
                   status_message, paste_calls>>

----------------------------------------------------------------------------
\* The thread spawned by stop_recording.

WorkerDone == [pc |-> "done", audio_result |-> Ok(NoWav), api_key |-> <<>>]

\* match audio_result: the Ok arm is the one that goes on to the transcriber
WorkerTranscribesAlways(audio_result) == TRUE
WorkerTranscribes(audio_result) == audio_result.ok

\* match audio_result { Ok(audio_data) => { tx.send(TranscriptionStart); .. } Err(e) => .. }
WorkerRun(i) ==
    /\ i \in 1..Len(workers)
    /\ workers[i].pc = "spawned"
    /\ IF WorkerTranscribes(workers[i].audio_result)
       THEN /\ channel' = Append(channel, TranscriptionStart)
            /\ workers' = [workers EXCEPT ![i].pc = "transcribing"]
       ELSE /\ channel' = channel \o WorkerOnCaptureError(workers[i].audio_result)
            /\ workers' = [workers EXCEPT ![i] = WorkerDone]
    /\ UNCHANGED <<transcribe_calls, monitor_vars, ghost_vars, lock_vars, audio_vars, app_vars>>

\* Transcriber::new(api_key).transcribe(audio_data) returned, and its result is sent
WorkerTranscribeStep(i, whisper, chat) ==
    /\ i \in 1..Len(workers)
    /\ workers[i].pc = "transcribing"
    /\ channel' = channel \o WorkerOnTranscribed(
                     transcribe(workers[i].api_key, workers[i].audio_result.value,
                                whisper, chat))
    /\ workers' = [workers EXCEPT ![i] = WorkerDone]
    /\ UNCHANGED <<monitor_vars, ghost_vars, lock_vars, audio_vars, app_vars>>

WorkerTranscribe(i, whisper, chat) ==
    /\ WorkerTranscribeStep(i, whisper, chat)
    /\ UNCHANGED transcribe_calls

\* What an observer of the transcriber's calls records: transcribe(audio_data)
ObserveTranscribe(i) ==
    transcribe_calls' = Append(transcribe_calls,
        [thread |-> i, audio_data |-> workers[i].audio_result.value])

\* The same step, observed.
WorkerTranscribeObserved(i, whisper, chat) ==
    /\ WorkerTranscribeStep(i, whisper, chat)
    /\ ObserveTranscribe(i)

\* VoxMagicApp::new, with the settings AppSettings::load() found
AppInit ==
    /\ settings \in [groq_api_key : ApiKeys, auto_paste : BOOLEAN]
    /\ state = "Ready"
    /\ history = <<>>
    /\ status_message = (IF settings.groq_api_key = <<>>
                         THEN <<"Setup Required">> ELSE <<"Ready">>)
    /\ show_settings = (settings.groq_api_key = <<>>)
    /\ ui_pc = "hotkey"
    /\ ui_local = [hk |-> KEY_STATE_IDLE, text |-> <<>>, blocked |-> {}]
    /\ paste_calls = <<>>
    /\ channel = <<>>
    /\ workers = <<>>
    /\ transcribe_calls = <<>>

----------------------------------------------------------------------------
MonitorInit ==
    /\ hotkey_state = KEY_STATE_IDLE
    /\ was_pressed = FALSE
    /\ release_start = None
    /\ g_phase = "none"
    /\ g_up_ms = None
    /\ g_bounced = FALSE
    /\ ep_pubs = <<>>
    /\ g_last_pub = None
    /\ g_session = [opened |-> 0, open |-> FALSE, appended |-> <<>>, behind |-> {}]

Init == MonitorInit /\ AudioInit /\ LockInit /\ AppInit

SpecMonitor == Init /\ [][HotkeyMonitor]_vars

SpecAudio == Init /\ [][AudioNext]_vars

----------------------------------------------------------------------------
(***************************************************************************)
(* The whole program: the monitor thread, the UI thread running update(),  *)
(* the device's callback and the workers, in every interleaving.           *)
(***************************************************************************)

\* The most recording sessions (threads spawned by stop_recording) of a run.
MaxSessions == 2

\* What the transcription service answers: the whisper endpoint (an error or the
\* text) and the chat endpoint (an error, no choice, or the first choice's content).
WhisperReplies ==
    { Err("RequestError", "timed out"), Ok(<<" ">>), Ok(<<" ", "h", "i", " ">>) }
ChatReplies ==
    { Err("ApiError", "Chat API failed"), Ok(Some(<<"H", "i", ".", "\n">>)) }

\* The devices and blocks explored with the whole program.
AppDeviceCases ==
    { Device(FALSE, FALSE, 16000, 1, "I16", FALSE, FALSE),
      Device(TRUE, TRUE, 48000, 2, "I16", TRUE, TRUE) }
AppBlocks == { <<I16_MIN, -3>> }

\* The most sessions of a run of FairSpec, whose liveness check costs more.
MaxFairSessions == 1

\* The monitor thread beside the rest: a poll every RELEASE_GRACE_MS, so that a
\* release is published at the second poll that finds the chord up.  A new press
\* is polled only while fewer than `sessions` sessions have been recorded.
BoundedHotkeyMonitor(sessions) ==
    \E is_pressed \in BOOLEAN :
        /\ (is_pressed /\ ~was_pressed) => Len(workers) < sessions
        /\ MonitorStep(is_pressed, RELEASE_GRACE_MS)
        /\ UNCHANGED <<ghost_vars, lock_vars, audio_vars, app_vars, worker_vars>>

AppHotkeyMonitor == BoundedHotkeyMonitor(MaxSessions)

FairHotkeyMonitor == BoundedHotkeyMonitor(MaxFairSessions)

CoordinatorNext ==
    \/ ProcessHotkeyLoad
    \/ \E dev \in AppDeviceCases : ProcessHotkeyPressed(dev)
    \/ ProcessHotkeyReleased
    \/ ProcessMessage
    \/ PasteTextToActiveWindow
    \/ \E ev \in UiEvents : UpdateWidgets(ev)

WorkerNext ==
    \E i \in 1..MaxSessions + 1 :
        \/ WorkerRun(i)
        \/ \E whisper \in WhisperReplies, chat \in ChatReplies :
              WorkerTranscribe(i, whisper, chat)

Next ==
    \/ AppHotkeyMonitor
    \/ CoordinatorNext
    \/ WorkerNext
    \/ \E data \in AppBlocks : AudioCallback(data)

Spec == Init /\ [][Next]_vars

FairNext ==
    \/ FairHotkeyMonitor
    \/ CoordinatorNext
    \/ WorkerNext
    \/ \E data \in AppBlocks : AudioCallback(data)

\* The UI thread keeps calling update(), and a spawned thread runs to its end
\* (the transcription call returns).
FairSpec == Init /\ [][FairNext]_vars /\ WF_vars(CoordinatorNext) /\ WF_vars(WorkerNext)

\* The monitor thread beside the rest, its polls observed.
ObservedMonitorPoll(sessions, is_pressed) ==
    /\ (is_pressed /\ ~was_pressed) => Len(workers) < sessions
    /\ MonitorPoll(is_pressed, RELEASE_GRACE_MS)
    /\ UNCHANGED <<lock_vars, audio_vars, app_vars, worker_vars>>

FairMonitor == \E is_pressed \in BOOLEAN : ObservedMonitorPoll(MaxFairSessions, is_pressed)

\* An iteration that finds the chord up.
FairMonitorUp == ObservedMonitorPoll(MaxFairSessions, FALSE)

FairBothNext ==
    \/ FairMonitor
    \/ CoordinatorNext
    \/ WorkerNext
    \/ \E data \in AppBlocks : AudioCallback(data)

\* The monitor thread keeps polling as well: while the chord is up its iterations
\* find it up.  Whether and when the chord is pressed is the user's choice.
FairBothSpec ==
    Init /\ [][FairBothNext]_vars
         /\ WF_vars(FairMonitorUp) /\ WF_vars(CoordinatorNext) /\ WF_vars(WorkerNext)

----------------------------------------------------------------------------
(***************************************************************************)
(* The coordinator's message loop under an arbitrary sender: the Sender is *)
(* cloned into every spawned thread, and process_messages acts on whatever *)
(* arrives, in whatever AppState.  SpecMessages sends every sequence of    *)
(* messages and runs update() on them.                                     *)
(***************************************************************************)

\* The most messages sent and not yet received.
MaxQueued == 1
\* The most calls of paste_text_to_active_window in a run of SpecMessages.
MaxPastes == 11

SentMessages ==
    { TranscriptionStart,
      TranscriptionComplete(<<" ", "a">>),
      TranscriptionComplete(<<"b", "\n">>),
      TranscriptionComplete(<<" ">>),
      TranscriptionError(<<"HTTP request failed: ", "timed out">>) }

\* tx.send(msg) of some spawned thread
SendMessage(msg) ==
    /\ Len(channel) < MaxQueued
    /\ Len(paste_calls) + Len(channel) < MaxPastes
    /\ channel' = Append(channel, msg)
    /\ UNCHANGED <<monitor_vars, ghost_vars, lock_vars, audio_vars, app_vars, workers,
                   transcribe_calls>>

MessagesNext ==
    \/ \E msg \in SentMessages : SendMessage(msg)
    \/ ProcessHotkeyLoad
    \/ ProcessMessage
    \/ PasteTextToActiveWindow
    \/ UpdateWidgets([kind |-> "none", key |-> <<>>])

\* The credential plays no part in the message loop: one value of it is enough.
MessagesInit == Init /\ settings.groq_api_key = <<"g", "s", "k">>

SpecMessages == MessagesInit /\ [][MessagesNext]_vars

----------------------------------------------------------------------------
(***************************************************************************)
(* The whole program with the transcriber's calls observed, for a user who *)
(* leaves the window alone: the settings stay as they were loaded.  The    *)
(* device captures at 22050 Hz, so that two samples make a WAV of one.     *)
(***************************************************************************)

\* The most sessions of a run of SpecSessions.
MaxObservedSessions == 2

SessionDeviceCases ==
    { Device(FALSE, FALSE, 16000, 1, "I16", FALSE, FALSE),
      Device(TRUE, TRUE, 22050, 2, "I16", TRUE, TRUE) }

\* What the chat endpoint answers in SpecSessions: a failed request, a status that is
\* not a success, a body that does not parse, no choice, or the first choice's text.
SessionChatReplies ==
    ChatReplies \cup { Err("RequestError", "connection reset"),
                       Err("ParseError", "expected value"),
                       Ok(None) }

SessionsNext ==
    \/ BoundedHotkeyMonitor(MaxObservedSessions)
    \/ ProcessHotkeyLoad
    \/ \E dev \in SessionDeviceCases : ProcessHotkeyPressed(dev)
    \/ ProcessHotkeyReleased
    \/ ProcessMessage
    \/ PasteTextToActiveWindow
    \/ UpdateWidgets([kind |-> "none", key |-> <<>>])
    \/ \E i \in 1..MaxObservedSessions + 1 :
          \/ WorkerRun(i)
          \/ \E whisper \in WhisperReplies, chat \in SessionChatReplies :
                WorkerTranscribeObserved(i, whisper, chat)
    \/ \E data \in AppBlocks : AudioCallback(data)

SpecSessions == Init /\ [][SessionsNext]_vars

----------------------------------------------------------------------------
(***************************************************************************)
(* The signal processor on its own: downsample and encode_wav applied to   *)
(* every buffer of a session in progress, at every native rate of the set. *)
(* On these inputs the f64 arithmetic of downsample (ratio, pos, fract) is *)
(* exact enough to agree with the rational arithmetic used here.           *)
(***************************************************************************)

\* The longest buffer resampled in the model.
MaxResampleLen == 4

\* The native rates and the sample values explored.
ResampleRates == {8000, 11025, 16000, 22050, 44100, 48000}
ResampleValues == {I16_MIN, -3, 7, I16_MAX}

SeqsUpTo(S, n) == UNION { [1..k -> S] : k \in 0..n }

\* A session in progress: the flag set, a mono i16 stream held, the buffer filled.
ResampleInit ==
    /\ MonitorInit /\ LockInit /\ AppInit
    /\ settings = [groq_api_key |-> <<"g", "s", "k">>, auto_paste |-> TRUE]
    /\ \E samples \in SeqsUpTo(ResampleValues, MaxResampleLen), rate \in ResampleRates :
          recording_state = [is_recording |-> TRUE, samples |-> samples,
                             actual_sample_rate |-> rate, actual_channels |-> 1]
    /\ active_stream = Some([format |-> "I16", channels |-> 1])
    /\ last_result = Ok(NoWav)

\* downsample(samples, from, 16000) applied to the buffer, its output kept as a WAV's data
Downsample ==
    /\ last_result' =
          Ok([NoWav EXCEPT !.data = downsample(recording_state.samples,
                                               recording_state.actual_sample_rate,
                                               TARGET_SAMPLE_RATE)])
    /\ UNCHANGED <<recording_state, active_stream, monitor_vars, ghost_vars, lock_vars,
                   app_vars, worker_vars>>

ResampleNext ==
    \/ Downsample
    \/ ClientStop

SpecResample == ResampleInit /\ [][ResampleNext]_vars

----------------------------------------------------------------------------
(***************************************************************************)
(* The capture engine step by step.  RecordingState is shared between the  *)
(* thread that calls start_recording and stop_recording and the device's   *)
(* callback thread; the flag is an atomic and the buffer sits behind a     *)
(* Mutex.  SpecCapture runs the two threads statement by statement:        *)
(* Mutex::lock returns at once when the mutex is free and parks the thread *)
(* until it is free otherwise.                                             *)
(***************************************************************************)

\* The devices and blocks explored step by step.
CaptureDeviceCases ==
    { Device(FALSE, FALSE, 16000, 1, "I16", FALSE, FALSE),
      Device(TRUE, TRUE, 16000, 1, "I16", TRUE, TRUE),
      Device(TRUE, TRUE, 48000, 2, "I16", TRUE, TRUE) }
CaptureBlocks == { <<7>>, <<I16_MIN, -3>> }

\* samples.lock() by the context `who`, standing at `pc`: the step it takes when
\* it reaches the call ("lock") or is parked in it ("parked").
MutexLock(who, pc) ==
    IF samples_lock = None
    THEN [lock |-> Some(who), pc |-> "locked"]
    ELSE [lock |-> samples_lock, pc |-> "parked"]

\* The callback is entered with a block: if !is_recording.load(Relaxed) { return; }
CallbackEnter(data) ==
    /\ cb.pc = "idle"
    /\ active_stream # None
    /\ Len(recording_state.samples) + Len(data) \div Unwrap(active_stream).channels
          <= MaxSamples
    /\ cb' = IF CallbackWrites(recording_state)
             THEN [pc |-> "lock", data |-> data, stream |-> Unwrap(active_stream)]
             ELSE cb
    /\ UNCHANGED <<samples_lock, caller, audio_vars, monitor_vars, ghost_vars, app_vars,
                   worker_vars>>

\* if let Ok(mut samples_guard) = samples.lock()
CallbackLock ==
    /\ cb.pc \in {"lock", "parked"}
    /\ cb.pc = "parked" => samples_lock = None
    /\ LET r == MutexLock("callback", cb.pc)
       IN  /\ samples_lock' = r.lock
           /\ cb' = [cb EXCEPT !.pc = r.pc]
    /\ UNCHANGED <<caller, audio_vars, monitor_vars, ghost_vars, app_vars, worker_vars>>

\* for frame in data.chunks_exact(..) { .. samples_guard.push(mono); }, the guard dropped
CallbackPushStep ==
    /\ cb.pc = "locked"
    /\ recording_state' =
          [recording_state EXCEPT !.samples = @ \o MixDown(cb.stream, cb.data)]
    /\ samples_lock' = None
    /\ cb' = [cb EXCEPT !.pc = "idle", !.data = <<>>]
    /\ UNCHANGED <<caller, active_stream, last_result, monitor_vars, app_vars, worker_vars>>

CallbackPush == CallbackPushStep /\ UNCHANGED ghost_vars

\* stop_recording, up to its samples.lock(): the flag is loaded and stored; `pc` is
\* where the calling thread stands when it makes the call
StopEnterFrom(pc) ==
    /\ caller.pc = pc
    /\ IF StopRefused(recording_state)
       THEN /\ last_result' = Err("NotRecording", "")
            /\ UNCHANGED <<recording_state, caller>>
       ELSE /\ recording_state' = [recording_state EXCEPT !.is_recording = FALSE]
            /\ caller' = [caller EXCEPT !.pc = "lock", !.call = "stop"]
            /\ UNCHANGED last_result
    /\ UNCHANGED <<samples_lock, cb, active_stream, monitor_vars, ghost_vars, app_vars,
                   worker_vars>>

StopEnter == StopEnterFrom("idle")

\* state.samples.lock(), of stop_recording and of start_recording
CallerLock ==
    /\ caller.pc \in {"lock", "parked"}
    /\ caller.pc = "parked" => samples_lock = None
    /\ LET r == MutexLock(caller.call, caller.pc)
       IN  /\ samples_lock' = r.lock
           /\ caller' = [caller EXCEPT !.pc = r.pc]
    /\ UNCHANGED <<cb, audio_vars, monitor_vars, ghost_vars, app_vars, worker_vars>>

\* stop_recording, from .clone() on: the copy is taken, the guard dropped, and the
\* copy is refused when empty and encoded otherwise
StopCloneStep ==
    /\ caller.pc = "locked"
    /\ caller.call = "stop"
    /\ samples_lock' = None
    /\ caller' = [caller EXCEPT !.pc = "idle"]
    /\ last_result' =
          IF recording_state.samples = <<>>
          THEN Err("EncodingError", "No audio captured")
          ELSE encode_wav(recording_state.samples, recording_state.actual_sample_rate)
    /\ UNCHANGED <<cb, recording_state, active_stream, monitor_vars, app_vars, worker_vars>>

StopClone == StopCloneStep /\ UNCHANGED ghost_vars

\* start_recording, up to its samples.lock()
StartEnter(dev) ==
    /\ caller.pc = "idle"
    /\ IF StartRefused(recording_state)
       THEN /\ last_result' = Err("AlreadyRecording", "")
            /\ UNCHANGED caller
       ELSE /\ caller' = [pc |-> "lock", call |-> "start", dev |-> dev]
            /\ UNCHANGED last_result
    /\ UNCHANGED <<samples_lock, cb, recording_state, active_stream, monitor_vars,
                   ghost_vars, app_vars, worker_vars>>

\* start_recording: samples.clear(), the guard dropped
StartClear ==
    /\ caller.pc = "locked"
    /\ caller.call = "start"
    /\ recording_state' = [recording_state EXCEPT !.samples = SamplesCleared(@)]
    /\ samples_lock' = None
    /\ caller' = [caller EXCEPT !.pc = "cleared"]
    /\ UNCHANGED <<cb, active_stream, last_result, monitor_vars, ghost_vars, app_vars,
                   worker_vars>>

\* start_recording, after the buffer is cleared: the device, its config, the stream
\* and the flag; the buffer is not touched again
StartFinishStep ==
    /\ caller.pc = "cleared"
    /\ LET r == start_recording(recording_state, caller.dev)
       IN  /\ recording_state' = [r.rs EXCEPT !.samples = recording_state.samples]
           /\ last_result' = r.result
           /\ active_stream' = IF r.result.ok THEN r.stream ELSE active_stream
    /\ caller' = [caller EXCEPT !.pc = "idle"]
    /\ UNCHANGED <<samples_lock, cb, monitor_vars, app_vars, worker_vars>>

StartFinish == StartFinishStep /\ UNCHANGED ghost_vars

CaptureNext ==
    \/ \E data \in CaptureBlocks : CallbackEnter(data)
    \/ CallbackLock
    \/ CallbackPush
    \/ StopEnter
    \/ CallerLock
    \/ StopClone
    \/ \E dev \in CaptureDeviceCases : StartEnter(dev)
    \/ StartClear
    \/ StartFinish
    \/ ClientDropStream

SpecCapture == Init /\ [][CaptureNext]_vars

----------------------------------------------------------------------------
(***************************************************************************)
(* Recording sessions of the capture engine, observed.  A session opens    *)
(* when start_recording returns Ok and is read out by stop_recording's     *)
(* clone.  The caller holds one stream at a time, as VoxMagicApp does      *)
(* (app.rs, 140-165): it starts a session only when it holds no stream,    *)
(* and a stream it lets go is gone with its callback thread (the callback  *)
(* in progress has returned).  The caller is free to stop before or after  *)
(* it lets the stream go, so a callback that loaded the flag before        *)
(* stop_recording cleared it can still push after the readout.             *)
(***************************************************************************)

\* The sessions a run opens.
MaxRecordedSessions == 2

monitor_ghost_vars == <<g_phase, g_up_ms, g_bounced, ep_pubs, g_last_pub>>

\* What the callback's push added to the buffer, recorded while a session is open.
PushedNow == SubSeq(recording_state'.samples, Len(recording_state.samples) + 1,
                    Len(recording_state'.samples))

CallbackPushObserved ==
    /\ CallbackPushStep
    /\ g_session' = IF g_session.open
                    THEN [g_session EXCEPT !.appended = @ \o PushedNow]
                    ELSE [g_session EXCEPT !.behind = @ \cup {g_session.opened}]
    /\ UNCHANGED monitor_ghost_vars

StopCloneObserved ==
    /\ StopCloneStep
    /\ g_session' = [g_session EXCEPT !.open = FALSE]
    /\ UNCHANGED monitor_ghost_vars

StartFinishObserved ==
    /\ StartFinishStep
    /\ g_session' = IF last_result'.ok
                    THEN [g_session EXCEPT !.opened = @ + 1, !.open = TRUE, !.appended = <<>>]
                    ELSE g_session
    /\ UNCHANGED monitor_ghost_vars

\* drop(stream), the callback thread ended
ReleaseStream ==
    /\ cb.pc = "idle"
    /\ caller.pc = "idle"
    /\ ClientDropStream

\* start_recording, called by a caller that holds no stream
StartSession(dev) ==
    /\ active_stream = None
    /\ g_session.opened < MaxRecordedSessions
    /\ StartEnter(dev)

IsolationNext ==
    \/ \E data \in CaptureBlocks : CallbackEnter(data)
    \/ CallbackLock
    \/ CallbackPushObserved
    \/ StopEnter
    \/ CallerLock
    \/ StopCloneObserved
    \/ \E dev \in CaptureDeviceCases : StartSession(dev)
    \/ StartClear
    \/ StartFinishObserved
    \/ ReleaseStream

SpecIsolation == Init /\ [][IsolationNext]_vars

----------------------------------------------------------------------------
(***************************************************************************)
(* The coordinator's stop path, statement by statement (app.rs, 159-193),  *)
(* against the callback thread: the stream is taken, paused and dropped;   *)
(* AppState and the status are set; audio::stop_recording stores the flag, *)
(* locks the buffer and clones it; the worker thread is spawned.  The      *)
(* dropped stream's callback thread has ended when drop returns.           *)
(***************************************************************************)

\* VoxMagicApp::start_recording
StopPathStart(dev) ==
    /\ caller.pc = "idle"
    /\ AppStartRecording(dev)
    /\ UNCHANGED <<monitor_vars, ghost_vars, lock_vars, last_result, worker_vars, history,
                   settings, ui_pc, ui_local, paste_calls>>

\* VoxMagicApp::stop_recording, up to the call of audio::stop_recording:
\* self.active_stream.take(), stream.pause(), drop(stream), self.state, self.status_message
StopPathTake ==
    /\ caller.pc = "idle"
    /\ state = "Listening"
    /\ cb.pc = "idle"
    /\ active_stream' = StreamAfterTake(active_stream)
    /\ state' = "Transcribing"
    /\ status_message' = <<"Refining...">>
    /\ caller' = [caller EXCEPT !.pc = "taken", !.call = "stop"]
    /\ UNCHANGED <<samples_lock, cb, recording_state, last_result, monitor_vars, ghost_vars,
                   worker_vars, history, show_settings, settings, ui_pc, ui_local,
                   paste_calls>>

\* let audio_result = audio::stop_recording(&self.recording_state), entered
StopPathEnter == StopEnterFrom("taken")

\* thread::spawn(move || { match audio_result { .. } })
StopPathSpawn ==
    /\ caller.pc = "idle"
    /\ state = "Transcribing"
    /\ workers = <<>>
    /\ workers' = Append(workers, [pc |-> "spawned", audio_result |-> last_result,
                                   api_key |-> settings.groq_api_key])
    /\ UNCHANGED <<monitor_vars, ghost_vars, lock_vars, audio_vars, app_vars, channel,
                   transcribe_calls>>

StopPathNext ==
    \/ \E dev \in CaptureDeviceCases : StopPathStart(dev)
    \/ \E data \in CaptureBlocks : CallbackEnter(data)
    \/ CallbackLock
    \/ CallbackPush
    \/ StopPathTake
    \/ StopPathEnter
    \/ CallerLock
    \/ StopClone
    \/ StopPathSpawn

SpecStopPath == Init /\ [][StopPathNext]_vars

----------------------------------------------------------------------------
\* C1: once a press has been polled and the chord has then been polled up for
\* RELEASE_GRACE_MS without interruption, what the monitor stored into the slot
\* since that press is exactly one Pressed followed by exactly one Released.
C1_PressThenHeldRelease ==
    g_phase = "closed" => ep_pubs = <<KEY_STATE_PRESSED, KEY_STATE_RELEASED>>

\* a press, then a release that lasted the whole window, with no bounce between
C1_Witness ==
    /\ g_phase = "closed"
    /\ ~g_bounced
    /\ hotkey_state = KEY_STATE_RELEASED
    /\ ~was_pressed

\* C2: when the chord went up and was polled down again before the window
\* elapsed, nothing but the one Pressed of the opening press has been stored
\* (no Released for the cancelled edge, no second Pressed for the re-press), and
\* the monitor's timer is unset while the chord is down and counts from zero from
\* the next falling edge: it always equals the uninterrupted up time.
C2_BounceCancelled ==
    (g_phase = "held" /\ g_bounced) =>
        /\ ep_pubs = <<KEY_STATE_PRESSED>>
        /\ was_pressed
        /\ release_start = g_up_ms

\* after a bounce, the chord is up again and the timer has restarted and run
C2_Witness ==
    /\ g_phase = "held"
    /\ g_bounced
    /\ g_up_ms = Some(5 * POLL_SLEEP_MS)
    /\ release_start = Some(5 * POLL_SLEEP_MS)

----------------------------------------------------------------------------
\* C3: every call of audio::start_recording made while the recording flag is set
\* returns AlreadyRecording and changes nothing of the session: the flag, the
\* sample buffer, the stored native rate and channel count, and the stream held.
C3_StartWhileRecording ==
    [][ (recording_state.is_recording /\ \E dev \in DeviceCases : ClientStart(dev))
        => /\ last_result' = Err("AlreadyRecording", "")
           /\ recording_state'.is_recording = recording_state.is_recording
           /\ recording_state'.samples = recording_state.samples
           /\ recording_state'.actual_sample_rate = recording_state.actual_sample_rate
           /\ recording_state'.actual_channels = recording_state.actual_channels
           /\ active_stream' = active_stream ]_vars

\* start was refused during a session that has captured samples
C3_Witness ==
    /\ last_result = Err("AlreadyRecording", "")
    /\ recording_state.is_recording
    /\ recording_state.samples # <<>>
    /\ recording_state.actual_sample_rate = 48000
    /\ active_stream # None

\* C4: every call of audio::stop_recording made while the recording flag is clear
\* returns NotRecording and changes neither the flag nor the sample buffer.
C4_StopWhileIdle ==
    [][ (~recording_state.is_recording /\ ClientStop)
        => /\ last_result' = Err("NotRecording", "")
           /\ recording_state'.is_recording = recording_state.is_recording
           /\ recording_state'.samples = recording_state.samples ]_vars

\* stop was refused after an earlier session, whose samples are still in the buffer
C4_Witness ==
    /\ last_result = Err("NotRecording", "")
    /\ ~recording_state.is_recording
    /\ recording_state.samples # <<>>

----------------------------------------------------------------------------
\* C5: in every reachable state the coordinator is in exactly one of the four
\* AppStates; in Listening the recording flag is set and an input stream is held;
\* in Ready the flag is clear and no stream is held.
C5_StateAndSession ==
    /\ state \in AppStates
    /\ state = "Listening" => (recording_state.is_recording /\ active_stream # None)
    /\ state = "Ready" => (~recording_state.is_recording /\ active_stream = None)

\* back in Ready after a whole session that reached the history
C5_Witness ==
    /\ state = "Ready"
    /\ workers # <<>>
    /\ history # <<>>
    /\ ~recording_state.is_recording
    /\ active_stream = None

\* C6: whenever the coordinator is in Transcribing it is eventually in Ready,
\* whether the capture stop, the transcription request or neither failed, given
\* that update() keeps being called and the spawned thread runs to its end.
C6_TranscribingLeadsToReady == (state = "Transcribing") ~> (state = "Ready")

\* Transcribing with a worker whose capture stop failed
C6_Witness ==
    /\ state = "Transcribing"
    /\ \E i \in 1..Len(workers) :
          workers[i].pc = "spawned" /\ ~workers[i].audio_result.ok

\* The spawned threads that have not sent their last message yet.
LiveWorkers == { i \in 1..Len(workers) : workers[i].pc # "done" }

\* C7: at most one spawned thread has not yet sent its terminal message, and
\* while a capture session exists (Listening, the flag set or a stream held) no
\* such thread exists and no message is undelivered.
C7_OneSessionInFlight ==
    /\ Cardinality(LiveWorkers) <= 1
    /\ (state = "Listening" \/ recording_state.is_recording \/ active_stream # None)
          => (LiveWorkers = {} /\ channel = <<>>)

\* a second session is being recorded after the first one's thread has ended
C7_Witness ==
    /\ state = "Listening"
    /\ recording_state.samples # <<>>
    /\ workers # <<>>
    /\ LiveWorkers = {}

----------------------------------------------------------------------------
\* What the claims call empty or whitespace-only text, and the trimmed text:
\* the part from the first to the last character that is not whitespace.
IsBlank(t) == \A k \in 1..Len(t) : t[k] \in Whitespace

Trimmed(t) ==
    LET solid == { k \in 1..Len(t) : t[k] \notin Whitespace }
    IN  IF solid = {} THEN <<>>
        ELSE SubSeq(t, CHOOSE k \in solid : \A j \in solid : k <= j,
                       CHOOSE k \in solid : \A j \in solid : k >= j)

\* update() receives a completed message whose text is not blank
ReceivesText ==
    /\ ProcessMessage
    /\ Head(channel).tag = "TranscriptionComplete"
    /\ ~IsBlank(Head(channel).text)

\* C8: the history never holds more than 10 entries, and every entry added goes
\* to the front with the earlier entries behind it in their order; when the
\* history is full, the entry that goes is the last one, the oldest.
C8_HistoryBounded ==
    [][ /\ Len(history') <= 10
        /\ ReceivesText =>
              /\ Len(history') = Min(Len(history) + 1, 10)
              /\ history'[1] = Trimmed(Head(channel).text)
              /\ \A k \in 2..Len(history') : history'[k] = history[k - 1] ]_vars

\* eleven entries were added (and pasted); the first of them, the only "a", is gone
C8_Witness ==
    /\ Len(paste_calls) = 11
    /\ paste_calls[1] = <<"a">>
    /\ \A k \in 2..11 : paste_calls[k] = <<"b">>
    /\ history = [k \in 1..10 |-> <<"b">>]
    /\ ui_pc = "messages"

\* C9: when update() receives a completed message whose text is not blank, the
\* history gains exactly one entry, the trimmed text, at the front.  With
\* auto-paste on the coordinator is then in Pasting, inside the one call of the
\* paste action, which gets the trimmed text and ends in Ready; with auto-paste
\* off it is in Ready at once.  The paste action is called nowhere else.
C9_CompletedWithText ==
    [][ /\ ReceivesText =>
              /\ Len(history') = Min(Len(history) + 1, 10)
              /\ history'[1] = Trimmed(Head(channel).text)
              /\ \A k \in 2..Len(history') : history'[k] = history[k - 1]
              /\ paste_calls' = paste_calls
              /\ IF settings.auto_paste
                 THEN /\ state' = "Pasting"
                      /\ ui_pc' = "paste"
                      /\ ui_local'.text = Trimmed(Head(channel).text)
                 ELSE /\ state' = "Ready"
                      /\ ui_pc' = "messages"
        /\ ui_pc = "paste" =>
              \/ /\ ui_pc' = "paste"
                 /\ state' = "Pasting"
                 /\ UNCHANGED <<paste_calls, history, ui_local>>
              \/ /\ ui_pc' = "messages"
                 /\ state' = "Ready"
                 /\ paste_calls' = Append(paste_calls, ui_local.text)
                 /\ history' = history
        /\ (ui_pc # "paste" \/ state # "Pasting") => paste_calls' = paste_calls ]_vars

\* "Hi." came back from the refinement with a newline, and was stored and pasted
C9_Witness ==
    /\ state = "Ready"
    /\ settings.auto_paste
    /\ history = << <<"H", "i", ".">> >>
    /\ paste_calls = << <<"H", "i", ".">> >>
    /\ status_message = <<"Success">>

\* update() receives a completed message whose text is blank
ReceivesBlank ==
    /\ ProcessMessage
    /\ Head(channel).tag = "TranscriptionComplete"
    /\ IsBlank(Head(channel).text)

\* C10: when update() receives a completed message whose text is empty or only
\* whitespace, the history is unchanged, the paste action is not called, the
\* status is "No speech detected" and the state is Ready.
C10_CompletedBlank ==
    [][ ReceivesBlank =>
          /\ history' = history
          /\ paste_calls' = paste_calls
          /\ ui_pc' = "messages"
          /\ status_message' = <<"No speech detected">>
          /\ state' = "Ready" ]_vars

\* a session whose transcription was whitespace, after one that reached the history
C10_Witness ==
    /\ status_message = <<"No speech detected">>
    /\ state = "Ready"
    /\ history # <<>>
    /\ Len(workers) = 2

----------------------------------------------------------------------------
\* The transcription request of thread i fails: Transcriber::transcribe returns
\* the whisper endpoint's error.
RequestFails(i, whisper) ==
    /\ ~whisper.ok
    /\ \E chat \in ChatReplies : WorkerTranscribe(i, whisper, chat)

\* update() receives a failed message
ReceivesError ==
    /\ ProcessMessage
    /\ Head(channel).tag = "TranscriptionError"

\* C11: when the transcription request fails, the thread sends one failed message
\* and nothing else, and it carries the error's text; when update() receives a
\* failed message the status is "Error: " followed by that text, the history is
\* unchanged, the paste action is not called and the state is Ready.
C11_RequestFailed ==
    [][ /\ \A i \in 1..Len(workers), whisper \in WhisperReplies :
              RequestFails(i, whisper) =>
                  /\ Len(channel') = Len(channel) + 1
                  /\ channel'[Len(channel')].tag = "TranscriptionError"
                  /\ ~IsBlank(workers[i].api_key) =>
                        channel'[Len(channel')].text =
                            <<"HTTP request failed: ", whisper.detail>>
        /\ ReceivesError =>
              /\ status_message' = <<"Error: ">> \o Head(channel).text
              /\ history' = history
              /\ paste_calls' = paste_calls
              /\ ui_pc' = "messages"
              /\ state' = "Ready" ]_vars

\* the second session's request timed out, after a first one reached the history
C11_Witness ==
    /\ state = "Ready"
    /\ status_message = <<"Error: ", "HTTP request failed: ", "timed out">>
    /\ history # <<>>
    /\ Len(workers) = 2
    /\ LiveWorkers = {}

----------------------------------------------------------------------------
\* The spawned threads that were handed a failed capture stop and have not run yet.
FailedCaptureWorkers ==
    { i \in 1..Len(workers) : workers[i].pc = "spawned" /\ ~workers[i].audio_result.ok }

\* C12: when the coordinator stops a capture session whose buffer is empty,
\* audio::stop_recording clears the recording flag and returns the encoding error
\* "No audio captured"; the thread that gets this result sends one failed message
\* with the error's text and ends without calling the transcriber; and the
\* coordinator is eventually in Ready.
C12_NoAudioCaptured ==
    /\ [][ (ProcessHotkeyReleased /\ state = "Listening" /\ recording_state.samples = <<>>)
              => /\ ~recording_state'.is_recording
                 /\ Len(workers') = Len(workers) + 1
                 /\ workers'[Len(workers')].pc = "spawned"
                 /\ workers'[Len(workers')].audio_result =
                        Err("EncodingError", "No audio captured") ]_vars
    /\ [][ \A i \in FailedCaptureWorkers :
              workers'[i] # workers[i]
                  => /\ workers'[i].pc = "done"
                     /\ channel' = Append(channel,
                            TranscriptionError(<<"Failed to encode WAV: ",
                                                 "No audio captured">>)) ]_vars
    /\ (FailedCaptureWorkers # {}) ~> (state = "Ready" /\ LiveWorkers = {})

\* the session with no samples has ended: its error is the status, in Ready
C12_Witness ==
    /\ state = "Ready"
    /\ status_message = <<"Error: ", "Failed to encode WAV: ", "No audio captured">>
    /\ ~recording_state.is_recording
    /\ recording_state.samples = <<>>
    /\ Len(workers) = 1
    /\ LiveWorkers = {}

----------------------------------------------------------------------------
\* update() consumes a Pressed edge in Ready while the credential is not usable:
\* empty or only whitespace, what Transcriber::transcribe reports as missing.
PressedWithoutCredential ==
    /\ \E dev \in AppDeviceCases : ProcessHotkeyPressed(dev)
    /\ state = "Ready"
    /\ IsBlank(settings.groq_api_key)

\* C13: when no usable credential is configured, a Pressed edge consumed by the
\* coordinator starts no capture session: the state stays Ready, the capture
\* engine's start is not called (the RecordingState, the stream held and the
\* status are as before) and the settings panel is shown.
C13_PressedWithoutCredential ==
    [][ PressedWithoutCredential =>
          /\ state' = "Ready"
          /\ recording_state' = recording_state
          /\ active_stream' = active_stream
          /\ status_message' = status_message
          /\ show_settings' ]_vars

----------------------------------------------------------------------------
\* The callback reaches samples.lock() while another context holds the mutex.
CallbackFindsLockHeld ==
    /\ CallbackLock
    /\ cb.pc = "lock"
    /\ samples_lock # None

\* C14: the audio callback never waits on the sample-buffer lock: whenever it
\* reaches the lock while another context holds it, it returns with the block's
\* samples dropped (the buffer as it was), and it is never parked in the lock.
C14_CallbackNeverWaits ==
    [][ /\ CallbackFindsLockHeld =>
              /\ cb'.pc = "idle"
              /\ recording_state'.samples = recording_state.samples
        /\ cb'.pc # "parked" ]_vars

----------------------------------------------------------------------------
\* The encoded WAVs that exist: those handed to a spawned thread that still runs.
ArtifactsHeld ==
    { i \in 1..Len(workers) : workers[i].pc # "done" /\ workers[i].audio_result.ok }

\* C15: no step of the coordinator's own thread resamples and encodes the captured
\* samples or calls the transcriber: a step of update() brings no encoded WAV
\* into being and sends no message; the WAV and the result messages come from
\* steps of the spawned thread.
C15_EncodingOffCoordinator ==
    [][ CoordinatorNext =>
          /\ ArtifactsHeld' \subseteq ArtifactsHeld
          /\ Len(channel') <= Len(channel) ]_vars

----------------------------------------------------------------------------
\* C16: no step of update() (process_hotkey, process_messages and what they call)
\* makes the UI thread wait: it opens no device and it does not sleep.
C16_UpdateNeverBlocks == ui_local.blocked = {}

----------------------------------------------------------------------------
TerminalTags == {"TranscriptionComplete", "TranscriptionError"}

\* channel' is channel with one message more at its end, whose tag is in tags
SendsOne(tags) ==
    /\ Len(channel') = Len(channel) + 1
    /\ SubSeq(channel', 1, Len(channel)) = channel
    /\ channel'[Len(channel')].tag \in tags

\* C17: a spawned thread that was handed a WAV sends one started message and then
\* exactly one terminal message (completed or failed) and nothing more; one that
\* was handed a capture error sends exactly one failed message and no started
\* message.  The channel changes in no other way than by such a send at its end
\* and by update() taking its first message, so messages are received in the
\* order sent: what is undelivered is always the rest of the session's
\* sequence, in its order.
C17_MessagesPerSession ==
    /\ [](/\ \A i \in 1..Len(workers) :
                /\ workers[i].pc = "spawned" => channel = <<>>
                /\ workers[i].pc = "transcribing" => channel \in {<<>>, <<TranscriptionStart>>}
          /\ LiveWorkers = {} =>
                \/ channel = <<>>
                \/ Len(channel) = 1 /\ channel[1].tag \in TerminalTags
                \/ /\ Len(channel) = 2
                   /\ channel[1] = TranscriptionStart
                   /\ channel[2].tag \in TerminalTags)
    /\ [][ /\ \A i \in 1..Len(workers) :
                workers'[i] # workers[i] =>
                    IF workers[i].pc = "spawned" /\ workers[i].audio_result.ok
                    THEN /\ channel' = Append(channel, TranscriptionStart)
                         /\ workers'[i].pc = "transcribing"
                    ELSE IF workers[i].pc = "spawned"
                    THEN /\ SendsOne({"TranscriptionError"})
                         /\ workers'[i].pc = "done"
                    ELSE /\ workers[i].pc = "transcribing"
                         /\ SendsOne(TerminalTags)
                         /\ workers'[i].pc = "done"
           /\ (channel' # channel /\ \A i \in 1..Len(workers) : workers'[i] = workers[i])
                 => (ProcessMessage /\ channel' = Tail(channel)) ]_vars

\* the second session's thread has ended and both its messages are undelivered
C17_Witness ==
    /\ Len(workers) = 2
    /\ LiveWorkers = {}
    /\ Len(channel) = 2
    /\ channel[1] = TranscriptionStart
    /\ channel[2].tag = "TranscriptionComplete"
    /\ state = "Transcribing"

----------------------------------------------------------------------------
\* How many calls of Transcriber::transcribe the thread i has made.
CallsOf(i) == Cardinality({ k \in 1..Len(transcribe_calls) : transcribe_calls[k].thread = i })

\* C18: a capture session that is stopped hands its thread exactly one result of
\* audio::stop_recording: an artifact when the stop succeeded (the buffer held
\* samples), none when it failed.  The thread passes that artifact to the
\* transcriber in exactly one call, the step in which it ends; a thread that was
\* handed a failed stop ends without a call; and no call is made otherwise.
C18_OneArtifactOneCall ==
    /\ [](\A i \in 1..Len(workers) :
              /\ workers[i].pc = "spawned" => CallsOf(i) = 0
              /\ workers[i].pc = "transcribing" =>
                    (CallsOf(i) = 0 /\ workers[i].audio_result.ok)
              /\ workers[i].pc = "done" => CallsOf(i) <= 1)
    /\ [][ /\ (ProcessHotkeyReleased /\ state = "Listening") =>
                 /\ Len(workers') = Len(workers) + 1
                 /\ workers'[Len(workers')].pc = "spawned"
                 /\ workers'[Len(workers')].audio_result.ok
                        = (recording_state.samples # <<>>)
                 /\ workers'[Len(workers')].audio_result.ok =>
                        workers'[Len(workers')].audio_result =
                            encode_wav(recording_state.samples,
                                       recording_state.actual_sample_rate)
           /\ \A i \in 1..Len(workers) :
                 workers'[i] # workers[i] =>
                     IF workers[i].pc = "spawned" /\ ~workers[i].audio_result.ok
                     THEN /\ workers'[i].pc = "done"
                          /\ transcribe_calls' = transcribe_calls
                     ELSE IF workers[i].pc = "spawned"
                     THEN /\ workers'[i].pc = "transcribing"
                          /\ workers'[i].audio_result = workers[i].audio_result
                          /\ transcribe_calls' = transcribe_calls
                     ELSE /\ workers[i].pc = "transcribing"
                          /\ workers'[i].pc = "done"
                          /\ transcribe_calls' = Append(transcribe_calls,
                                 [thread |-> i,
                                  audio_data |-> workers[i].audio_result.value])
           /\ (\A i \in 1..Len(workers) : workers'[i] = workers[i])
                 => transcribe_calls' = transcribe_calls ]_vars

\* two sessions ended: the first one's stop failed, the second one's artifact,
\* one resampled sample, was passed to the transcriber once
C18_Witness ==
    /\ Len(workers) = 2
    /\ LiveWorkers = {}
    /\ Len(transcribe_calls) = 1
    /\ transcribe_calls[1].thread = 2
    /\ Len(transcribe_calls[1].audio_data.data) = 1

----------------------------------------------------------------------------
\* C19: for every input sample sequence and every native rate R, also R below
\* 16000, the length of downsample's output is within 1 of
\* floor(input_length * 16000 / R).
C19_ResampledLength ==
    [][ Downsample =>
          LET expected == (Len(recording_state.samples) * 16000)
                              \div recording_state.actual_sample_rate
              produced == Len(last_result'.value.data)
          IN  produced - expected \in -1..1 ]_vars

\* three samples at 8000 Hz became six
C19_Witness ==
    /\ recording_state.actual_sample_rate = 8000
    /\ recording_state.samples = <<7, -3, I16_MAX>>
    /\ recording_state.is_recording
    /\ last_result.ok
    /\ Len(last_result.value.data) = 6

----------------------------------------------------------------------------
\* C20: when the native rate is 16000 Hz, the samples of the WAV that
\* stop_recording returns are exactly the buffer's samples, in their order and
\* with their values, and so is the output of downsample.
C20_TargetRatePassThrough ==
    [][ recording_state.actual_sample_rate = 16000 =>
          /\ (ClientStop /\ recording_state.is_recording /\ recording_state.samples # <<>>)
                => /\ last_result'.ok
                   /\ last_result'.value.sample_rate = 16000
                   /\ last_result'.value.data = recording_state.samples
          /\ Downsample => last_result'.value.data = recording_state.samples ]_vars

\* a session at 16000 Hz was stopped, and its four samples are the WAV's
C20_Witness ==
    /\ recording_state.actual_sample_rate = 16000
    /\ ~recording_state.is_recording
    /\ recording_state.samples = <<I16_MIN, 7, -3, I16_MAX>>
    /\ last_result.ok
    /\ last_result.value.data = <<I16_MIN, 7, -3, I16_MAX>>

----------------------------------------------------------------------------
Abs(x) == IF x < 0 THEN -x ELSE x

\* C21: for every output index i, with pos = i * R / 16000, the output sample is
\* the linear interpolation between input[floor(pos)] and input[floor(pos) + 1]
\* weighted by the fractional part of pos and quantized to the nearest integer (it
\* is no further than one half from the exact value); when floor(pos) is the last
\* input index it is input[floor(pos)] itself.
C21_InterpolatedNearest ==
    [][ Downsample =>
          LET samples == recording_state.samples
              rate    == recording_state.actual_sample_rate
              out     == last_result'.value.data
          IN  \A k \in 1..Len(out) :
                  LET index == ((k - 1) * rate) \div 16000
                      rem   == ((k - 1) * rate) % 16000
                  IN  IF index + 1 < Len(samples)
                      THEN LET s1 == samples[index + 1]
                               s2 == samples[index + 2]
                           IN  2 * Abs(out[k] * 16000 - (s1 * 16000 + (s2 - s1) * rem))
                                   <= 16000
                      ELSE /\ index < Len(samples)
                           /\ out[k] = samples[index + 1] ]_vars

----------------------------------------------------------------------------
\* C22: whenever the raw transcription succeeds with text that is not blank and
\* the refinement fails (its request, its status or its parse), transcribe returns
\* success with the unrefined text, so the thread sends a completed message with
\* it and never the refinement's error; and when the raw text is blank the result
\* is the raw transcription whatever the chat endpoint would answer: refine is
\* not called.
C22_RefinementFailureNotFatal ==
    [][ \A i \in 1..Len(workers), whisper \in WhisperReplies, chat \in SessionChatReplies :
          ( /\ WorkerTranscribeObserved(i, whisper, chat)
            /\ ~IsBlank(workers[i].api_key)
            /\ whisper.ok
            /\ IsBlank(whisper.value) \/ ~chat.ok )
          => channel' = Append(channel, TranscriptionComplete(whisper.value)) ]_vars

\* the refinement failed: the raw text, as whisper gave it, is on its way
C22_Witness ==
    /\ channel = <<TranscriptionStart, TranscriptionComplete(<<" ", "h", "i", " ">>)>>
    /\ Len(transcribe_calls) = 1
    /\ LiveWorkers = {}

\* C23: over any sequence of recording sessions, what stop_recording reads out for a
\* session is exactly what the callback pushed during that session: its result is
\* "No audio captured" when nothing was pushed and the encoding of the pushed samples
\* otherwise, whatever earlier sessions captured or pushed after their readout.
C23_SessionIsolation ==
    [][ StopCloneObserved =>
          /\ recording_state.samples = g_session.appended
          /\ last_result' =
                IF g_session.appended = <<>>
                THEN Err("EncodingError", "No audio captured")
                ELSE encode_wav(g_session.appended, recording_state.actual_sample_rate) ]_vars

\* A second session was read out with its own sample only, after a callback of the
\* first session pushed behind that session's readout.
C23_Witness ==
    /\ g_session.opened = 2
    /\ 1 \in g_session.behind
    /\ ~g_session.open
    /\ g_session.appended = <<7>>
    /\ recording_state.samples = <<7>>
    /\ last_result.ok
    /\ caller.pc = "idle"
    /\ recording_state.actual_sample_rate = 16000
    /\ active_stream = None

\* C24: the callback pushes only while the recording flag is set, and in the
\* coordinator's stop path the flag is already cleared when the stream is paused
\* and released and when the buffer is read out.
C24_FlagClearedFirst ==
    [][ /\ CallbackPushStep => recording_state.is_recording
        /\ (active_stream # None /\ active_stream' = None) => ~recording_state.is_recording
        /\ StopCloneStep => ~recording_state.is_recording ]_vars

\* C25: for a block of i16 samples delivered to a recording stream of c channels, the
\* callback appends one mono sample per complete frame of c values and nothing for a
\* shorter tail; each is the quotient of the frame's sum by c truncated toward zero,
\* and lies in the 16-bit signed range.
C25_MonoPerFrame ==
    [][ \A data \in BlocksI16 :
          ( /\ AudioCallback(data)
            /\ recording_state.is_recording
            /\ Unwrap(active_stream).format = "I16" )
          => LET c    == Unwrap(active_stream).channels
                 n    == Len(data) \div c
                 old  == recording_state.samples
                 new  == recording_state'.samples
             IN  /\ Len(new) = Len(old) + n
                 /\ SubSeq(new, 1, Len(old)) = old
                 /\ \A k \in 1..n :
                       LET sum  == SumSeq(SubSeq(data, (k - 1) * c + 1, k * c))
                           mono == new[Len(old) + k]
                       IN  /\ Abs(mono * c) <= Abs(sum)
                           /\ Abs(sum - mono * c) < c
                           /\ mono \in I16_MIN..I16_MAX ]_vars

\* A stereo stream was given <<I16_MIN, -3>>: one sample, -32771 / 2 truncated.
C25_Witness ==
    /\ recording_state.is_recording
    /\ active_stream = Some([format |-> "I16", channels |-> 2])
    /\ recording_state.samples = <<-16385>>

\* The last poll of the monitor found the chord up (or there was no poll yet).
ChordPolledUp == ~(g_phase = "held" /\ g_up_ms = None)

\* C26: once the coordinator is Listening with the chord polled down, whenever it is
\* still Listening and from then on the chord is polled up, it eventually enters
\* Transcribing; the monitor loop and update() both keep running.
C26_ReleaseReachesTranscribing ==
    []( (state = "Listening" /\ ~ChordPolledUp) =>
          []( (state = "Listening" /\ []ChordPolledUp) => <>(state = "Transcribing") ) )

\* C27: the monitor stores only Pressed or Released, the coordinator stores only
\* Idle, and when the coordinator stores Idle the slot still holds the value that
\* process_hotkey loaded.
C27_ClearErasesNothingUnread ==
    [][ /\ AppHotkeyMonitor => hotkey_state' \in {hotkey_state, KEY_STATE_PRESSED, KEY_STATE_RELEASED}
        /\ CoordinatorNext => hotkey_state' \in {hotkey_state, KEY_STATE_IDLE}
        /\ (ui_pc = "edge" /\ ui_pc' = "messages") =>
              /\ hotkey_state' = KEY_STATE_IDLE
              /\ hotkey_state = ui_local.hk ]_vars

\* C28: what the monitor stores into the slot alternates, starting with Pressed: it
\* stores Pressed only as its first store or after a Released, and Released only
\* after a Pressed.
C28_PublicationsAlternate ==
    [][ \A is_pressed \in BOOLEAN, dt \in MonitorGaps :
          LET pub == MonitorOutcome(is_pressed, dt).pub
          IN  (MonitorPoll(is_pressed, dt) /\ pub # None) =>
                /\ pub = Some(KEY_STATE_PRESSED) =>
                      g_last_pub \in {None, Some(KEY_STATE_RELEASED)}
                /\ pub = Some(KEY_STATE_RELEASED) =>
                      g_last_pub = Some(KEY_STATE_PRESSED)
                /\ pub \in {Some(KEY_STATE_PRESSED), Some(KEY_STATE_RELEASED)} ]_vars

\* A Pressed and then a Released were stored, after a bounce of the chord that
\* stored nothing.
C28_Witness ==
    /\ ep_pubs = <<KEY_STATE_PRESSED, KEY_STATE_RELEASED>>
    /\ g_last_pub = Some(KEY_STATE_RELEASED)
    /\ g_bounced
    /\ ~was_pressed

\* process_hotkey acts on an edge it loaded in a state where the edge does not apply.
ConsumesInapplicableEdge ==
    /\ ui_pc = "edge"
    /\ ui_pc' = "messages"
    /\ \/ ui_local.hk = KEY_STATE_PRESSED /\ state # "Ready"
       \/ ui_local.hk = KEY_STATE_RELEASED /\ state # "Listening"

\* C29: a Pressed edge consumed while the coordinator is not Ready, and a Released
\* edge consumed while it is not Listening, leave AppState, the capture session, the
\* history and the channel as they were and spawn no thread; the slot is cleared and
\* the coordinator keeps no copy of the edge to act on later.
C29_InapplicableEdgeSwallowed ==
    [][ ConsumesInapplicableEdge =>
          /\ UNCHANGED <<state, recording_state, active_stream, history, channel, workers>>
          /\ hotkey_state' = KEY_STATE_IDLE
          /\ ui_local'.hk = KEY_STATE_IDLE ]_vars

\* A Pressed edge has been loaded while a session is being transcribed.
C29_Witness ==
    /\ ui_pc = "edge"
    /\ ui_local.hk = KEY_STATE_PRESSED
    /\ state = "Transcribing"
    /\ Len(workers) = 1
    /\ ~recording_state.is_recording
====
